---- MODULE Spec2Model ----
(***************************************************************************)
(* nyc4free-to-gc: the event detail scraper (description_scraper.py) and   *)
(* the calendar sync (main.py).                                            *)
(*                                                                         *)
(* Text that the code only compares or concatenates is a TLA+ string.      *)
(* Text the code tests with startswith (URLs, hrefs) is a sequence of      *)
(* tokens from a prefix-free alphabet (no token is a prefix of another),   *)
(* so that "s.startswith(p)" is exactly "p is a prefix of s" on tokens:    *)
(* https://www.nycforfree.com is <<"https:","/","/","www.nycforfree.co",   *)
(* "m">>.                                                                  *)
(***************************************************************************)
EXTENDS Integers, Sequences, FiniteSets, TLC

VARIABLES
    \* ---- EventDescriptionScraper instance and its callers
    base_url,       \* self.base_url
    request_delay,  \* self.request_delay, in hundredths of a second
    cache,          \* the lru_cache of _cached_fetch, least recently used first
    requests,       \* network observer: full_url -> number of session.get calls
    lastCall,       \* the most recent get_details call: argument, I/O trace, result
    history,        \* observer: the full_url of every call that reached _cached_fetch
    answers,        \* observer: full_url -> the EventDetails first returned for it
    fillers,        \* caller: how many once-only pages it has asked for so far
    repeats,        \* caller: how many calls it has made for the pages it revisits
    \* ---- _extract_details applied to one page
    html, details,
    \* ---- build_google_event_from_item applied to one item
    item, built,
    \* ---- fetch_all_items applied to the month responses
    months, unique_items,
    \* ---- main(): delete_existing_imported_events, build loop, insert_events
    pc,             \* where main() is
    pages,          \* calendar service: the pages events().list() serves, in order
    calendar,       \* calendar service: the ids of the old events still stored
    page_token,     \* delete_existing_imported_events: 0 is None, else the page asked next
    todo,           \* delete_existing_imported_events: the rest of `for ev in items`
    deleted, failed,
    asked,          \* observer: the ids a delete was issued for
    listError,      \* observer: an events().list() call raised
    items,          \* main: the items fetch_all_items returned
    pos,            \* main / insert_events: how many list entries the loop has handled
    events, failed_builds,
    inserted,       \* calendar service: the drafts stored by insert, in order
    count,
    insertLog       \* observer: the insert calls and sleeps of insert_events, in order

scraperVars == <<base_url, request_delay, cache, requests, lastCall, history,
                 answers, fillers, repeats>>
extractVars == <<html, details>>
buildVars   == <<item, built>>
dedupVars   == <<months, unique_items>>
mainVars    == <<pc, pages, calendar, page_token, todo, deleted, failed, asked,
                 listError, items, pos, events, failed_builds, inserted, count,
                 insertLog>>
vars == <<scraperVars, extractVars, buildVars, dedupVars, mainVars>>

-----------------------------------------------------------------------------
(* Generic helpers                                                         *)

RECURSIVE SeqsUpTo(_, _)
SeqsUpTo(S, n) ==
    IF n = 0 THEN {<<>>}
    ELSE LET shorter == SeqsUpTo(S, n - 1)
         IN  shorter \cup {Append(s, x) : s \in {t \in shorter : Len(t) = n - 1}, x \in S}

Range(s) == {s[i] : i \in DOMAIN s}

\* s.startswith(p) on token sequences
startswith(s, p) == Len(p) <= Len(s) /\ SubSeq(s, 1, Len(p)) = p

\* s.rstrip("/") and s.lstrip("/") on token sequences
RECURSIVE rstrip_slash(_)
rstrip_slash(s) ==
    IF s # <<>> /\ s[Len(s)] = "/" THEN rstrip_slash(SubSeq(s, 1, Len(s) - 1)) ELSE s

RECURSIVE lstrip_slash(_)
lstrip_slash(s) ==
    IF s # <<>> /\ s[1] = "/" THEN lstrip_slash(Tail(s)) ELSE s

\* filter(None, parts) and sep.join(parts) on strings
RECURSIVE Join(_, _)
Join(parts, sep) ==
    IF parts = <<>> THEN ""
    ELSE IF Len(parts) = 1 THEN parts[1]
    ELSE parts[1] \o sep \o Join(Tail(parts), sep)

FilterNonEmpty(parts) == SelectSeq(parts, LAMBDA p : p # "")

-----------------------------------------------------------------------------
(* description_scraper.py                                                  *)

\* @lru_cache(maxsize=512)
maxsize == 512

\* request_delay: float = 0.25, in hundredths of a second
DefaultDelay == 25

SiteOrigin == <<"https:", "/", "/", "www.nycforfree.co">>

SchemeTokens == {"https:", "HTTPS:", "http:", "mailto:", "MAILTO:", "tel:", "javascript:"}

\* urlparse lowercases the scheme it splits off
LowerScheme(t) ==
    CASE t = "HTTPS:"  -> "https:"
      [] t = "MAILTO:" -> "mailto:"
      [] OTHER         -> t

\* urllib.parse.urljoin(base, ref) for a base "scheme://host/" (root path):
\* an empty ref gives the base; a ref with another scheme is returned as
\* written; a ref with the base's scheme and a host is rebuilt with the
\* lowercased scheme; "//host/.." takes the base's scheme; "/path" replaces
\* the path; a bare fragment gives the base; anything else is appended to the
\* base's directory.
urljoin(base, ref) ==
    IF ref = <<>> THEN base
    ELSE IF ref[1] \in SchemeTokens THEN
        IF LowerScheme(ref[1]) # base[1] THEN ref
        ELSE <<base[1]>> \o Tail(ref)
    ELSE IF Len(ref) >= 2 /\ ref[1] = "/" /\ ref[2] = "/" THEN <<base[1]>> \o ref
    ELSE IF ref[1] = "/" THEN rstrip_slash(base) \o ref
    ELSE IF ref[1] = "#" THEN base
    ELSE base \o ref

EmptyDetails ==
    [description |-> "", external_url |-> <<>>, external_label |-> "",
     poster_image_url |-> <<>>]

\* __init__: base_url.rstrip("/"), max(0.0, request_delay)
InitBaseUrl(arg) == rstrip_slash(arg)
InitRequestDelay(arg) == IF arg > 0 THEN arg ELSE 0

_normalize_url(url_path) ==
    IF url_path = <<>> THEN <<>>
    ELSE IF startswith(url_path, <<"http:", "/", "/">>)
            \/ startswith(url_path, <<"https:", "/", "/">>) THEN url_path
    ELSE urljoin(base_url \o <<"/">>, lstrip_slash(url_path))

_normalize_href(href) ==
    IF href = <<>> THEN <<>> ELSE urljoin(base_url \o <<"/">>, href)

\* The anchors of scope.select(".sqs-block-button a") in document order,
\* each [href, text] with href already stripped and text = get_text(strip=True).
RECURSIVE _extract_external_link(_)
_extract_external_link(anchors) ==
    IF anchors = <<>> THEN [url |-> <<>>, label |-> ""]
    ELSE LET anchor == Head(anchors)
             normalized == _normalize_href(anchor.href)
         IN  IF normalized = <<>> THEN _extract_external_link(Tail(anchors))
             ELSE IF startswith(normalized, <<"mailto:">>)
                     \/ startswith(normalized, <<"tel:">>)
                  THEN _extract_external_link(Tail(anchors))
             ELSE IF startswith(normalized, base_url)
                  THEN _extract_external_link(Tail(anchors))
             ELSE [url |-> normalized,
                   label |-> IF anchor.text # "" THEN anchor.text ELSE "Official Link"]

\* og:image content, else the banner image's data-src, else its src
_extract_poster_image(page) ==
    IF page.og_image # <<>> THEN page.og_image
    ELSE IF page.has_banner THEN
        (IF page.banner_data_src # <<>> THEN page.banner_data_src ELSE page.banner_src)
    ELSE <<>>

\* A parsed page: whether the Post Body region exists, the rendered text of
\* each html block in it, the two description meta tags, the button anchors
\* inside the post body and elsewhere in the document, and the images.
_extract_details(page) ==
    LET fragments == IF page.post_body THEN FilterNonEmpty(page.blocks) ELSE <<>>
        fromBody  == Join(fragments, "\n\n")
        description ==
            IF fromBody # "" THEN fromBody
            ELSE IF page.og_description # "" THEN page.og_description
            ELSE page.meta_description
        scope == IF page.post_body THEN page.buttons_body
                 ELSE page.buttons_body \o page.buttons_outside
        link  == _extract_external_link(scope)
    IN  [description |-> description, external_url |-> link.url,
         external_label |-> link.label,
         poster_image_url |-> _extract_poster_image(page)]

\* What session.get and raise_for_status can do with one request: an exception
\* raised by the transport, or a response with a status and a parsed body.
RequestExceptions == {"ConnectionError", "Timeout", "HTTPError"}

\* an except clause that names the connection and status errors only
IsRequestException_NoTimeout(exc) == exc \in {"ConnectionError", "HTTPError"}

IsRequestException(exc) == exc \in RequestExceptions

\* response.raise_for_status(): HTTPError for 4xx and 5xx
raise_for_status(status) == IF status >= 400 THEN "HTTPError" ELSE "none"

\* The body of _cached_fetch on a cache miss: try / except RequestException /
\* finally. The result is the I/O it performed, the exception raised inside
\* the try block, whether it left the function, and the value returned.
_cached_fetch(outcome) ==
    LET exc == IF outcome.exc # "none" THEN outcome.exc
               ELSE raise_for_status(outcome.status)
        sleep == IF request_delay # 0 THEN <<"sleep">> ELSE <<>>
    IN  IF exc = "none" THEN
            [io |-> <<"get">> \o sleep, exc |-> exc, raised |-> FALSE,
             ret |-> _extract_details(outcome.page)]
        ELSE IF IsRequestException(exc) THEN
            [io |-> <<"get", "warning">> \o sleep, exc |-> exc, raised |-> FALSE,
             ret |-> EmptyDetails]
        ELSE
            [io |-> <<"get">> \o sleep, exc |-> exc, raised |-> TRUE,
             ret |-> EmptyDetails]

\* functools.lru_cache: the entries, least recently used first
lru_find(c, key) ==
    IF \E i \in DOMAIN c : c[i].key = key
    THEN CHOOSE i \in DOMAIN c : c[i].key = key ELSE 0

\* a hit moves the entry to the most recently used end
lru_hit(c, i) == SubSeq(c, 1, i - 1) \o SubSeq(c, i + 1, Len(c)) \o <<c[i]>>

\* a cache that keeps found pages only
lru_put_found_only(c, key, val) ==
    IF val = EmptyDetails THEN c
    ELSE IF Len(c) >= maxsize THEN Tail(c) \o <<[key |-> key, val |-> val]>>
    ELSE Append(c, [key |-> key, val |-> val])

\* a returned value is stored, whatever it is; a full cache drops its oldest entry
lru_put(c, key, val) ==
    LET entry == [key |-> key, val |-> val]
    IN  IF Len(c) >= maxsize THEN Tail(c) \o <<entry>> ELSE Append(c, entry)

Bump(f, k) == IF k \in DOMAIN f THEN [f EXCEPT ![k] = @ + 1] ELSE f @@ (k :> 1)

\* get_details(url_path), with what the network does if it is asked
get_details(url_path, outcome) ==
    LET full_url == _normalize_url(url_path)
        i == lru_find(cache, full_url)
        r == _cached_fetch(outcome)
    IN  IF full_url = <<>> THEN
            /\ lastCall' = [arg |-> url_path, url |-> full_url, io |-> <<>>,
                            exc |-> "none", raised |-> FALSE, ret |-> EmptyDetails]
            /\ UNCHANGED <<cache, requests, history, answers>>
        ELSE IF i # 0 THEN
            /\ cache' = lru_hit(cache, i)
            /\ lastCall' = [arg |-> url_path, url |-> full_url, io |-> <<>>,
                            exc |-> "none", raised |-> FALSE, ret |-> cache[i].val]
            /\ history' = Append(history, full_url)
            /\ UNCHANGED <<requests, answers>>
        ELSE
            /\ requests' = Bump(requests, full_url)
            /\ cache' = IF r.raised THEN cache ELSE lru_put(cache, full_url, r.ret)
            /\ lastCall' = [arg |-> url_path, url |-> full_url, io |-> r.io,
                            exc |-> r.exc, raised |-> r.raised, ret |-> r.ret]
            /\ history' = Append(history, full_url)
            /\ answers' = IF full_url \in DOMAIN answers THEN answers
                          ELSE answers @@ (full_url :> r.ret)

-----------------------------------------------------------------------------
(* Detail pages, callers and the network                                   *)

\* the most once-only pages a caller asks for between two visits of a page
MaxFillers == 513
\* the most get_details calls of a caller that only revisits pages
MaxCalls == 3
\* the most button anchors on a page
MaxButtons == 2

Anchor(href, text) == [href |-> href, text |-> text]

Hrefs ==
    { <<>>,
      <<"#">>,
      <<"/", "events", "/", "a">>,
      <<"https:", "/", "/", "www.nycforfree.co", "/", "events", "/", "a">>,
      <<"/", "/", "www.nycforfree.co", "/", "events", "/", "a">>,
      <<"HTTPS:", "/", "/", "WWW.NYCFORFREE.CO", "/", "events", "/", "a">>,
      <<"https:", "/", "/", "www.nycforfree.co", "m", "/", "rsvp">>,
      <<"https:", "/", "/", "tickets.example.org", "/", "rsvp">>,
      <<"mailto:", "info@example.org">>,
      <<"MAILTO:", "info@example.org">>,
      <<"tel:", "+12125550100">> }

Anchors == {Anchor(h, t) : h \in Hrefs, t \in {"", "RSVP"}}

PageOf(body, blocks, og, meta, inBody, outside) ==
    [post_body |-> body, blocks |-> blocks, og_description |-> og,
     meta_description |-> meta, buttons_body |-> inBody,
     buttons_outside |-> outside, og_image |-> <<>>, has_banner |-> FALSE,
     banner_data_src |-> <<>>, banner_src |-> <<>>]

RichPage ==
    PageOf(TRUE, <<"Free concert in the park.", "", "Bring a blanket.">>, "og text",
           "meta text",
           <<Anchor(<<"https:", "/", "/", "tickets.example.org", "/", "rsvp">>, "RSVP")>>,
           <<>>)

BarePage == PageOf(FALSE, <<>>, "", "", <<>>, <<>>)

\* pages that differ in their buttons
ButtonPages ==
    {PageOf(TRUE, <<"Free concert in the park.">>, "", "", b, <<>>) :
        b \in SeqsUpTo(Anchors, MaxButtons)}
    \cup {PageOf(FALSE, <<>>, "", "", <<>>, b) : b \in SeqsUpTo(Anchors, 1)}

\* pages that differ in where their description and poster image come from
TextPages ==
    {[PageOf(body, blocks, og, meta, <<>>, <<>>) EXCEPT
         !.og_image = img[1], !.has_banner = img[2], !.banner_data_src = img[3],
         !.banner_src = img[4]] :
        body \in BOOLEAN,
        blocks \in {<<>>, <<"">>, <<"One.", "", "Two.">>},
        og \in {"", "og text"}, meta \in {"", "meta text"},
        img \in {<<<<>>, FALSE, <<>>, <<>>>>,
                 <<<<"https:", "/", "/", "images.example.org", "/", "og.png">>, TRUE,
                   <<>>, <<"/", "banner.png">>>>,
                 <<<<>>, TRUE, <<"/", "lazy.png">>, <<"/", "banner.png">>>>,
                 <<<<>>, TRUE, <<>>, <<"/", "banner.png">>>>}}

Response(exc, status, page) == [exc |-> exc, status |-> status, page |-> page]

\* what one request can meet: a page, an error status, a transport error, a timeout
Outcomes ==
    {Response("none", 200, RichPage), Response("none", 200, BarePage),
     Response("none", 404, BarePage), Response("none", 503, BarePage),
     Response("ConnectionError", 0, BarePage), Response("Timeout", 0, BarePage)}

\* the spellings under which the caller of the long run asks for its page
CachePaths ==
    { <<>>,
      <<"events", "/", "a">>,
      <<"https:", "/", "/", "www.nycforfree.co", "/", "events", "/", "a">> }

\* the spellings under which callers ask for pages they revisit
EventPaths ==
    { <<>>,
      <<"/", "events", "/", "a">>,
      <<"events", "/", "a">>,
      <<"https:", "/", "/", "www.nycforfree.co", "/", "events", "/", "a">>,
      <<"/", "events", "/", "b">> }

\* the n-th page a caller asks for once only
FillerPath(n) == <<"/", "events", "/", "once", "/", ToString(n)>>

ScraperInit(baseArgs, delayArgs) ==
    /\ base_url \in {InitBaseUrl(b) : b \in baseArgs}
    /\ request_delay \in {InitRequestDelay(d) : d \in delayArgs}
    /\ cache = <<>>
    /\ requests = <<>>
    /\ lastCall = [arg |-> <<>>, url |-> <<>>, io |-> <<>>, exc |-> "none",
                   raised |-> FALSE, ret |-> EmptyDetails]
    /\ history = <<>>
    /\ answers = <<>>
    /\ fillers = 0
    /\ repeats = 0

\* a caller asks for a page it may ask for again
Revisit(paths, limit) ==
    /\ repeats < limit
    /\ ~lastCall.raised
    /\ \E p \in paths, o \in Outcomes : get_details(p, o)
    /\ repeats' = repeats + 1
    /\ UNCHANGED <<base_url, request_delay, fillers>>
    /\ UNCHANGED <<extractVars, buildVars, dedupVars, mainVars>>

\* a caller asks for a page it asks for only once; such pages are served
VisitOnce ==
    /\ repeats = 1
    /\ fillers < MaxFillers
    /\ get_details(FillerPath(fillers + 1), Response("none", 200, BarePage))
    /\ fillers' = fillers + 1
    /\ UNCHANGED <<base_url, request_delay, repeats>>
    /\ UNCHANGED <<extractVars, buildVars, dedupVars, mainVars>>

-----------------------------------------------------------------------------
(* main.py: listing items                                                  *)
(*                                                                         *)
(* An item is the dict parsed from the API's JSON: `keys` is the order in  *)
(* which the dict holds its top-level keys, and every field is a sequence  *)
(* that is empty when item.get(field) is None and holds the value          *)
(* otherwise. Timestamps count minutes since the epoch (the API's          *)
(* milliseconds / 60000).                                                  *)

NYC_MONTHS_AHEAD == 2
NYC_BASE_URL == "https://www.nycforfree.co"
TIMEZONE == "America/New_York"
IMPORT_MARKER == "Imported from nycforfree.co"
DELETE_ONLY == FALSE

SortedKeys ==
    <<"author", "endDate", "excerpt", "fullUrl", "id", "location", "startDate",
      "structuredContent", "tags", "title">>

NoLocation == <<>>
NoAuthor == <<>>
NoDates == <<>>

Location(title, line1, line2, country) ==
    <<[addressTitle |-> title, addressLine1 |-> line1, addressLine2 |-> line2,
       addressCountry |-> country]>>

Author(display, first, last) ==
    <<[displayName |-> display, firstName |-> first, lastName |-> last]>>

Dates(start, end) == <<[startDate |-> start, endDate |-> end]>>

BlankItem ==
    [keys |-> <<>>, id |-> <<>>, title |-> <<>>, location |-> NoLocation,
     structuredContent |-> NoDates, startDate |-> <<>>, endDate |-> <<>>,
     excerpt |-> <<>>, tags |-> <<>>, author |-> NoAuthor, fullUrl |-> <<>>]

\* the keys an item holds, in the order `order` lists them (keys that `order`
\* leaves out follow in sorted order)
Present(it) ==
    SelectSeq(SortedKeys, LAMBDA k : it[k] # <<>>)

WithKeys(it, order) ==
    [it EXCEPT !.keys =
        SelectSeq(order, LAMBDA k : k \in Range(Present(it)))
        \o SelectSeq(Present(it), LAMBDA k : k \notin Range(order))]

\* json.dumps(item): the key/value pairs in the dict's own order, or in sorted
\* key order with sort_keys=True
json_dumps(it, sort_keys) ==
    LET order == IF sort_keys
                 THEN SelectSeq(SortedKeys, LAMBDA k : k \in Range(it.keys))
                 ELSE it.keys
    IN  ToString([i \in DOMAIN order |-> <<order[i], ToString(it[order[i]])>>])

-----------------------------------------------------------------------------
(* main.py: fetch_all_items                                                *)

\* all_items.extend(fetch_month_items(..)) over the month windows
RECURSIVE Extend(_)
Extend(monthLists) ==
    IF monthLists = <<>> THEN <<>> ELSE Head(monthLists) \o Extend(Tail(monthLists))

\* a fallback key that serializes the dict in its own key order
DedupKey_Unsorted(it) ==
    IF it.id # <<>> /\ it.id[1] # "" THEN it.id[1] ELSE json_dumps(it, FALSE)

\* item.get("id"), or the sorted-key JSON of the item when that is falsy
DedupKey(it) ==
    IF it.id # <<>> /\ it.id[1] # "" THEN it.id[1] ELSE json_dumps(it, TRUE)

RECURSIVE Dedup(_, _, _)
Dedup(all_items, seen_ids, unique) ==
    IF all_items = <<>> THEN unique
    ELSE LET it == Head(all_items)
             item_id == DedupKey(it)
         IN  IF item_id \notin seen_ids
             THEN Dedup(Tail(all_items), seen_ids \cup {item_id}, Append(unique, it))
             ELSE Dedup(Tail(all_items), seen_ids, unique)

fetch_all_items(monthLists) == Dedup(Extend(monthLists), {}, <<>>)

-----------------------------------------------------------------------------
(* main.py: build_google_event_from_item                                   *)

\* America/New_York in 2026, in minutes since the epoch: daylight time from
\* 2026-03-08T07:00Z until 2026-11-01T06:00Z, standard time around it.
DstStart == 29549220
DstEnd == 29891880

utcoffset(t) == IF DstStart <= t /\ t < DstEnd THEN -240 ELSE -300

\* ms_to_datetime: the zoned local date and time of an instant
ms_to_datetime(t) ==
    LET local == t + utcoffset(t)
    IN  [instant |-> t, day |-> local \div 1440, hour |-> (local % 1440) \div 60,
         minute |-> local % 60, utcoffset |-> utcoffset(t)]

\* (dt - timedelta(days=n)).date(): pytz datetimes shift on the wall clock
DateMinusDays(d, n) == d.day - n

\* str.strip() on the texts the items carry
strip(text) ==
    CASE text = " " -> ""
      [] text = " 7 Main St " -> "7 Main St"
      [] OTHER -> text

Opt(field, default) == IF field = <<>> THEN default ELSE field[1]

\* a or b on optional timestamps (0 is falsy)
OrElse(a, b) == IF a # <<>> /\ a[1] # 0 THEN a ELSE b

DateField(day) ==
    [kind |-> "date", day |-> day, minute |-> 0, utcoffset |-> 0, timeZone |-> TIMEZONE]

DateTimeField(d) ==
    [kind |-> "dateTime", day |-> d.day, minute |-> 60 * d.hour + d.minute,
     utcoffset |-> d.utcoffset, timeZone |-> TIMEZONE]

\* a duration band that leaves out its upper end
is_all_day_Strict(start_dt, end_dt) ==
    \/ /\ start_dt.hour = 0 /\ start_dt.minute = 0
       /\ (end_dt.hour = 0 \/ end_dt.hour = 23)
       /\ end_dt.minute = 0
    \/ /\ end_dt.instant - start_dt.instant >= 23 * 60
       /\ end_dt.instant - start_dt.instant < 25 * 60

\* is_all_day
is_all_day(start_dt, end_dt) ==
    \/ /\ start_dt.hour = 0 /\ start_dt.minute = 0
       /\ (end_dt.hour = 0 \/ end_dt.hour = 23)
       /\ end_dt.minute = 0
    \/ /\ end_dt.instant - start_dt.instant >= 23 * 60
       /\ end_dt.instant - start_dt.instant <= 25 * 60

\* an end date that is not moved back for an end at midnight
AllDayEndDate_Unadjusted(end_dt) == end_dt.day

\* the end date of an all-day event before Google's exclusive-end day is added
AllDayEndDate(end_dt) ==
    IF end_dt.hour = 0 /\ end_dt.minute = 0 THEN DateMinusDays(end_dt, 1) ELSE end_dt.day

\* lines 159-187: the start and end fields
TimeWindow(start_ms, end_ms) ==
    LET start_dt == ms_to_datetime(start_ms[1])
        end_dt == IF end_ms # <<>> THEN ms_to_datetime(end_ms[1])
                  ELSE ms_to_datetime(start_ms[1] + 60)
    IN  IF is_all_day(start_dt, end_dt)
        THEN [start |-> DateField(start_dt.day),
              end |-> DateField(AllDayEndDate(end_dt) + 1)]
        ELSE [start |-> DateTimeField(start_dt), end |-> DateTimeField(end_dt)]

\* lines 143-149: the location string
LocationText(it) ==
    LET loc == Opt(it.location, Location("", "", "", "")[1])
    IN  Join(FilterNonEmpty(<<loc.addressTitle, loc.addressLine1, loc.addressLine2,
                              loc.addressCountry>>), ", ")

\* lines 201-205: displayName, or "first last" stripped
AuthorName(it) ==
    LET a == Opt(it.author, Author("", "", "")[1])
        first == strip(a.firstName)
        last == strip(a.lastName)
    IN  IF a.displayName # "" THEN a.displayName
        ELSE IF first # "" /\ last # "" THEN first \o " " \o last
        ELSE first \o last

\* a template that puts the location before the excerpt
DescriptionParts_LocationFirst(it) ==
    LET excerpt == strip(Opt(it.excerpt, ""))
        tags_str == IF it.tags # <<>> THEN "Tags: " \o Join(it.tags, ", ") ELSE ""
        author_name == AuthorName(it)
        source_url == IF it.fullUrl # <<>> /\ it.fullUrl[1] # ""
                      THEN NYC_BASE_URL \o it.fullUrl[1] ELSE ""
        loc == Opt(it.location, Location("", "", "", "")[1])
        address_line1 == strip(loc.addressLine1)
        address_line2 == strip(loc.addressLine2)
    IN  <<IMPORT_MARKER>>
        \o (IF source_url # "" THEN <<"Full Information: " \o source_url>> ELSE <<>>)
        \o (IF address_line1 # "" \/ address_line2 # ""
            THEN <<"Location:">>
                 \o (IF address_line1 # "" THEN <<address_line1>> ELSE <<>>)
                 \o (IF address_line2 # "" THEN <<address_line2>> ELSE <<>>)
            ELSE <<>>)
        \o (IF excerpt # "" THEN <<excerpt>> ELSE <<>>)
        \o (IF tags_str # "" THEN <<tags_str>> ELSE <<>>)
        \o (IF author_name # "" THEN <<"Listed by: " \o author_name>> ELSE <<>>)
        \o <<"Raw item JSON:\n" \o json_dumps(it, FALSE)>>

\* lines 193-253: description_parts, in the order the code appends them
DescriptionParts(it) ==
    LET excerpt == strip(Opt(it.excerpt, ""))
        tags_str == IF it.tags # <<>> THEN "Tags: " \o Join(it.tags, ", ") ELSE ""
        author_name == AuthorName(it)
        source_url == IF it.fullUrl # <<>> /\ it.fullUrl[1] # ""
                      THEN NYC_BASE_URL \o it.fullUrl[1] ELSE ""
        debug_info_str == "Raw item JSON:\n" \o json_dumps(it, FALSE)
        loc == Opt(it.location, Location("", "", "", "")[1])
        address_line1 == strip(loc.addressLine1)
        address_line2 == strip(loc.addressLine2)
    IN  (IF ~DELETE_ONLY THEN <<IMPORT_MARKER>> ELSE <<>>)
        \o (IF source_url # "" THEN <<"Full Information: " \o source_url>> ELSE <<>>)
        \o (IF excerpt # "" THEN <<excerpt>> ELSE <<>>)
        \o (IF address_line1 # "" \/ address_line2 # ""
            THEN <<"Location:">>
                 \o (IF address_line1 # "" THEN <<address_line1>> ELSE <<>>)
                 \o (IF address_line2 # "" THEN <<address_line2>> ELSE <<>>)
            ELSE <<>>)
        \o (IF tags_str # "" THEN <<tags_str>> ELSE <<>>)
        \o (IF author_name # "" THEN <<"Listed by: " \o author_name>> ELSE <<>>)
        \o <<debug_info_str>>

NoEvent ==
    [summary |-> "", location |-> "", start |-> DateField(0), end |-> DateField(0),
     description |-> ""]

\* a build that starts an item without a start timestamp at the epoch
build_defaulting_start(it) ==
    LET sc == Opt(it.structuredContent, Dates(<<>>, <<>>)[1])
        start_ms == OrElse(sc.startDate, it.startDate)
        end_ms == OrElse(sc.endDate, it.endDate)
        window == TimeWindow(IF start_ms = <<>> THEN <<0>> ELSE start_ms, end_ms)
    IN  [raised |-> "",
         event |-> [summary |-> IF Opt(it.title, "") # "" THEN it.title[1]
                                ELSE "NYC for FREE event",
                    location |-> LocationText(it),
                    start |-> window.start,
                    end |-> window.end,
                    description |->
                        Join(FilterNonEmpty(DescriptionParts(it)), "\n\n")]]

\* build_google_event_from_item: the draft, or the exception it raises
build_google_event_from_item(it) ==
    LET sc == Opt(it.structuredContent, Dates(<<>>, <<>>)[1])
        start_ms == OrElse(sc.startDate, it.startDate)
        end_ms == OrElse(sc.endDate, it.endDate)
        window == TimeWindow(start_ms, end_ms)
    IN  IF start_ms = <<>> THEN [raised |-> "ValueError", event |-> NoEvent]
        ELSE [raised |-> "",
              event |-> [summary |-> IF Opt(it.title, "") # "" THEN it.title[1]
                                     ELSE "NYC for FREE event",
                         location |-> LocationText(it),
                         start |-> window.start,
                         end |-> window.end,
                         description |->
                             Join(FilterNonEmpty(DescriptionParts(it)), "\n\n")]]

-----------------------------------------------------------------------------
(* main.py: main, delete_existing_imported_events, insert_events           *)

\* the most events the calendar holds when main starts
MaxOld == 2
\* the most pages events().list() splits them over
MaxPages == 3
\* the most items the month responses hold together
MaxItems == 2

\* nextPageToken of page k: the token of page k + 1, or None (0) on the last page
nextPageToken(k) == IF k < Len(pages) THEN k + 1 ELSE 0

\* the page a token asks for; None asks for the first
PageAsked == IF page_token = 0 THEN 1 ELSE page_token

MainInit(pageSplits) ==
    /\ pc = "list"
    /\ pages \in pageSplits
    /\ calendar = UNION {Range(pages[k]) : k \in DOMAIN pages}
    /\ page_token = 0
    /\ todo = <<>>
    /\ deleted = 0
    /\ failed = 0
    /\ asked = {}
    /\ listError = FALSE
    /\ items = <<>>
    /\ pos = 0
    /\ events = <<>>
    /\ failed_builds = 0
    /\ inserted = <<>>
    /\ count = 0
    /\ insertLog = <<>>

\* lines 276-295 and 313-315: one events().list() call of the while loop, up
\* to the for loop, the next iteration or the break
ListPage ==
    /\ pc = "list"
    /\ \E ok \in BOOLEAN :
        IF ~ok THEN
            /\ listError' = TRUE
            /\ pc' = "fetch"
            /\ UNCHANGED <<page_token, todo>>
        ELSE IF pages[PageAsked] = <<>> THEN
            /\ page_token' = nextPageToken(PageAsked)
            /\ pc' = IF nextPageToken(PageAsked) = 0 THEN "fetch" ELSE "list"
            /\ UNCHANGED <<listError, todo>>
        ELSE
            /\ todo' = pages[PageAsked]
            /\ pc' = "delete"
            /\ UNCHANGED <<listError, page_token>>
    /\ UNCHANGED <<pages, calendar, deleted, failed, asked, items, pos, events,
                   failed_builds, inserted, count, insertLog>>
    /\ UNCHANGED <<scraperVars, extractVars, buildVars, dedupVars>>

\* a for loop that a failed delete leaves, on to the next page
DeleteEvent_StopOnFailure ==
    /\ pc = "delete"
    /\ todo # <<>>
    /\ asked' = asked \cup {Head(todo)}
    /\ \E ok \in BOOLEAN :
        /\ IF ok THEN /\ calendar' = calendar \ {Head(todo)}
                      /\ deleted' = deleted + 1
                      /\ UNCHANGED failed
           ELSE /\ failed' = failed + 1
                /\ UNCHANGED <<calendar, deleted>>
        /\ todo' = IF ok THEN Tail(todo) ELSE <<>>
        /\ IF ~ok \/ Tail(todo) = <<>>
           THEN /\ page_token' = nextPageToken(PageAsked)
                /\ pc' = IF nextPageToken(PageAsked) = 0 THEN "fetch" ELSE "list"
           ELSE UNCHANGED <<page_token, pc>>
    /\ UNCHANGED <<pages, listError, items, pos, events, failed_builds, inserted,
                   count, insertLog>>
    /\ UNCHANGED <<scraperVars, extractVars, buildVars, dedupVars>>

\* lines 297-311: one events().delete() call of the for loop; after the last
\* one of the page, the token is read and the loop goes on or breaks
DeleteEvent ==
    /\ pc = "delete"
    /\ todo # <<>>
    /\ asked' = asked \cup {Head(todo)}
    /\ \E ok \in BOOLEAN :
        IF ok THEN /\ calendar' = calendar \ {Head(todo)}
                   /\ deleted' = deleted + 1
                   /\ UNCHANGED failed
        ELSE /\ failed' = failed + 1
             /\ UNCHANGED <<calendar, deleted>>
    /\ todo' = Tail(todo)
    /\ IF Tail(todo) = <<>>
       THEN /\ page_token' = nextPageToken(PageAsked)
            /\ pc' = IF nextPageToken(PageAsked) = 0 THEN "fetch" ELSE "list"
       ELSE UNCHANGED <<page_token, pc>>
    /\ UNCHANGED <<pages, listError, items, pos, events, failed_builds, inserted,
                   count, insertLog>>
    /\ UNCHANGED <<scraperVars, extractVars, buildVars, dedupVars>>

\* lines 352-357: fetch_all_items over what the month requests returned; a
\* request that raises ends main
FetchItems(pool) ==
    /\ pc = "fetch"
    /\ ~DELETE_ONLY
    /\ \/ \E all_items \in SeqsUpTo(pool, MaxItems) :
            /\ items' = fetch_all_items(<<all_items>>)
            /\ pc' = "build"
       \/ /\ pc' = "raised"
          /\ UNCHANGED items
    /\ UNCHANGED <<pages, calendar, page_token, todo, deleted, failed, asked,
                   listError, pos, events, failed_builds, inserted, count, insertLog>>
    /\ UNCHANGED <<scraperVars, extractVars, buildVars, dedupVars>>

\* lines 362-367: one iteration of the build loop
BuildNext ==
    /\ pc = "build"
    /\ pos < Len(items)
    /\ LET r == build_google_event_from_item(items[pos + 1])
       IN  IF r.raised = ""
           THEN events' = Append(events, r.event) /\ UNCHANGED failed_builds
           ELSE failed_builds' = failed_builds + 1 /\ UNCHANGED events
    /\ pos' = pos + 1
    /\ UNCHANGED <<pc, pages, calendar, page_token, todo, deleted, failed, asked,
                   listError, items, inserted, count, insertLog>>
    /\ UNCHANGED <<scraperVars, extractVars, buildVars, dedupVars>>

\* lines 369-373 and 323-327: the loop is over, insert_events is entered
CallInsert ==
    /\ pc = "build"
    /\ pos = Len(items)
    /\ pos' = 0
    /\ pc' = IF events = <<>> THEN "done" ELSE "insert"
    /\ UNCHANGED <<pages, calendar, page_token, todo, deleted, failed, asked,
                   listError, items, events, failed_builds, inserted, count,
                   insertLog>>
    /\ UNCHANGED <<scraperVars, extractVars, buildVars, dedupVars>>

\* an insert loop that sleeps in a finally clause, after failures too
InsertOne_SleepAlways(e, ok) ==
    IF ok
    THEN /\ inserted' = Append(inserted, e)
         /\ count' = count + 1
         /\ insertLog' = insertLog \o <<"insert", "sleep">>
    ELSE /\ insertLog' = insertLog \o <<"insert", "error", "sleep">>
         /\ UNCHANGED <<inserted, count>>

\* the events().insert() call and what follows it in the try block
InsertOne(e, ok) ==
    IF ok
    THEN /\ inserted' = Append(inserted, e)
         /\ count' = count + 1
         /\ insertLog' = insertLog \o <<"insert", "sleep">>
    ELSE /\ insertLog' = insertLog \o <<"insert", "error">>
         /\ UNCHANGED <<inserted, count>>

\* lines 328-340: one iteration of the insert loop
InsertNext ==
    /\ pc = "insert"
    /\ pos < Len(events)
    /\ \E ok \in BOOLEAN : InsertOne(events[pos + 1], ok)
    /\ pos' = pos + 1
    /\ pc' = IF pos + 1 = Len(events) THEN "done" ELSE "insert"
    /\ UNCHANGED <<pages, calendar, page_token, todo, deleted, failed, asked,
                   listError, items, events, failed_builds>>
    /\ UNCHANGED <<scraperVars, extractVars, buildVars, dedupVars>>

-----------------------------------------------------------------------------
(* Inputs                                                                  *)

\* the most start instants tried in each window of instants
MaxSlots == 96
\* the most items one month response holds
MaxPerMonth == 1

\* the calendar's old events 1..n split over pages of the given lengths
RECURSIVE SplitPages(_, _)
SplitPages(lengths, first) ==
    IF lengths = <<>> THEN <<>>
    ELSE <<[k \in 1..Head(lengths) |-> first + k - 1]>>
         \o SplitPages(Tail(lengths), first + Head(lengths))

RECURSIVE Sum(_)
Sum(ns) == IF ns = <<>> THEN 0 ELSE Head(ns) + Sum(Tail(ns))

PageSplits ==
    {SplitPages(l, 1) :
        l \in {m \in SeqsUpTo(0..MaxOld, MaxPages) : m # <<>> /\ Sum(m) <= MaxOld}}

\* start instants every half hour from local midnight of the day before the
\* clocks change in spring, and likewise in autumn
SpringWindow == DstStart - (24 + 2) * 60
AutumnWindow == DstEnd - (24 + 2) * 60
StartTimes ==
    {w + 30 * k : w \in {SpringWindow, AutumnWindow}, k \in 0..(MaxSlots - 1)}

\* event lengths in minutes: none, the hour, around the 23h..25h band, whole days
Durations == {0, 60, 22 * 60, 23 * 60 - 1, 23 * 60, 24 * 60, 24 * 60 + 5, 25 * 60,
              25 * 60 + 1, 48 * 60, 72 * 60}

TimedItem(start, end, nested) ==
    WithKeys(IF nested
             THEN [BlankItem EXCEPT !.id = <<"e1">>, !.title = <<"Jazz">>,
                                    !.structuredContent = Dates(start, end)]
             ELSE [BlankItem EXCEPT !.id = <<"e1">>, !.title = <<"Jazz">>,
                                    !.startDate = start, !.endDate = end],
             <<"id", "title">>)

TimeItems ==
    UNION {{TimedItem(<<t>>, e, nested) :
                nested \in BOOLEAN, e \in {<<>>} \cup {<<t + d>> : d \in Durations}} :
           t \in StartTimes}
    \cup {TimedItem(<<>>, e, nested) :
            nested \in BOOLEAN, e \in {<<>>, <<SpringWindow>>}}

DescItems ==
    {WithKeys([BlankItem EXCEPT
                 !.id = <<"e2">>, !.title = title, !.startDate = <<SpringWindow + 600>>,
                 !.fullUrl = url, !.excerpt = excerpt, !.tags = tags,
                 !.author = author, !.location = loc],
              <<"id", "title">>) :
        title \in {<<>>, <<"Jazz">>},
        url \in {<<>>, <<"/events/jazz">>},
        excerpt \in {<<>>, <<"Free jazz.">>},
        tags \in {<<>>, <<"music">>, <<"music", "outdoors">>},
        author \in {NoAuthor, Author("NYC for FREE", "Ann", "Lee"), Author("", "Ann", "Lee"),
                    Author("", "Ann", " ")},
        loc \in {NoLocation, Location("Park", "", "", "USA"),
                 Location("Park", " 7 Main St ", "", ""),
                 Location("", "7 Main St", "Floor 2", "USA"),
                 Location("", "", " ", "")}}

\* items main meets: dated under structuredContent, dated at top level,
\* and without any start
MainPool ==
    {TimedItem(<<SpringWindow + 600>>, <<SpringWindow + 720>>, TRUE),
     [TimedItem(<<AutumnWindow>>, <<>>, FALSE) EXCEPT !.id = <<"e2">>],
     [TimedItem(<<>>, <<SpringWindow>>, TRUE) EXCEPT !.id = <<"e3">>],
     [TimedItem(<<>>, <<>>, FALSE) EXCEPT !.id = <<>>, !.keys = <<"title">>]}

\* items the month windows return more than once or in several shapes
DedupPool ==
    LET walk == [BlankItem EXCEPT !.title = <<"Walk">>, !.excerpt = <<"x">>,
                                  !.startDate = <<SpringWindow>>]
    IN  {WithKeys([walk EXCEPT !.id = <<"abc123">>], <<"id", "title">>),
         WithKeys([walk EXCEPT !.id = <<"abc123">>, !.title = <<"Walk (moved)">>],
                  <<"id", "title">>),
         WithKeys(walk, <<"title", "excerpt">>),
         WithKeys(walk, <<"excerpt", "title">>),
         WithKeys([walk EXCEPT !.excerpt = <<"y">>], <<"title", "excerpt">>),
         WithKeys([walk EXCEPT !.id = <<"">>], <<"id", "title", "excerpt">>)}

-----------------------------------------------------------------------------
(* Specifications                                                          *)

ScraperIdle == ScraperInit({SiteOrigin}, {DefaultDelay})
ExtractInit(pageSet) == html \in pageSet /\ details = <<>>
BuildInit(itemSet) == item \in itemSet /\ built = <<>>
DedupInit(monthSets) == months \in monthSets /\ unique_items = <<>>
MainIdle == MainInit({<<<<>>>>})

\* _extract_details is applied to the page
Extract ==
    /\ details = <<>>
    /\ details' = <<_extract_details(html)>>
    /\ UNCHANGED <<html, scraperVars, buildVars, dedupVars, mainVars>>

\* build_google_event_from_item is applied to the item
Build ==
    /\ built = <<>>
    /\ built' = <<build_google_event_from_item(item)>>
    /\ UNCHANGED <<item, scraperVars, extractVars, dedupVars, mainVars>>

\* fetch_all_items runs over the month responses
Deduplicate ==
    /\ unique_items = <<>>
    /\ unique_items' = <<fetch_all_items(months)>>
    /\ UNCHANGED <<months, scraperVars, extractVars, buildVars, mainVars>>

\* main() from start to end
Init ==
    /\ ScraperIdle /\ ExtractInit({BarePage}) /\ BuildInit({BlankItem})
    /\ DedupInit({<<>>})
    /\ MainInit(PageSplits)

Next ==
    \/ ListPage
    \/ DeleteEvent
    \/ FetchItems(MainPool)
    \/ BuildNext
    \/ CallInsert
    \/ InsertNext

Spec == Init /\ [][Next]_vars

\* one scraper whose caller asks for a page, then for pages it never asks for
\* again, then once more for the first page
InitCache ==
    /\ ScraperInit({SiteOrigin \o <<"/">>}, {DefaultDelay})
    /\ ExtractInit({BarePage}) /\ BuildInit({BlankItem}) /\ DedupInit({<<>>})
    /\ MainIdle

NextCache ==
    \/ Revisit(CachePaths, 2)
    \/ VisitOnce

SpecCache == InitCache /\ [][NextCache]_vars

\* one scraper, however constructed, whose caller revisits pages in any order
InitScraper ==
    /\ ScraperInit({SiteOrigin, SiteOrigin \o <<"/">>}, {-5, 0, DefaultDelay})
    /\ ExtractInit({BarePage}) /\ BuildInit({BlankItem}) /\ DedupInit({<<>>})
    /\ MainIdle

NextScraper == Revisit(EventPaths, MaxCalls)

SpecScraper == InitScraper /\ [][NextScraper]_vars

\* insert_events called with drafts, beside a scraper whose caller revisits pages
ThrottlePaths == {<<"/", "events", "/", "a">>, <<"/", "events", "/", "b">>}

Buildable == {it \in MainPool : build_google_event_from_item(it).raised = ""}

InitThrottle ==
    /\ ScraperInit({SiteOrigin}, {0, DefaultDelay})
    /\ ExtractInit({BarePage}) /\ BuildInit({BlankItem}) /\ DedupInit({<<>>})
    /\ pc = "insert"
    /\ pages = <<<<>>>>
    /\ calendar = {}
    /\ page_token = 0
    /\ todo = <<>>
    /\ deleted = 0
    /\ failed = 0
    /\ asked = {}
    /\ listError = FALSE
    /\ items \in SeqsUpTo(Buildable, MaxItems) \ {<<>>}
    /\ pos = 0
    /\ events = [k \in DOMAIN items |-> build_google_event_from_item(items[k]).event]
    /\ failed_builds = 0
    /\ inserted = <<>>
    /\ count = 0
    /\ insertLog = <<>>

NextThrottle ==
    \/ InsertNext
    \/ Revisit(ThrottlePaths, MaxCalls)

SpecThrottle == InitThrottle /\ [][NextThrottle]_vars

\* _extract_details over pages
InitExtract ==
    /\ ScraperInit({SiteOrigin, SiteOrigin \o <<"/">>}, {DefaultDelay})
    /\ ExtractInit(ButtonPages \cup TextPages)
    /\ BuildInit({BlankItem}) /\ DedupInit({<<>>}) /\ MainIdle

SpecExtract == InitExtract /\ [][Extract]_vars

\* build_google_event_from_item over items
InitBuild ==
    /\ ScraperIdle /\ ExtractInit({BarePage})
    /\ BuildInit(TimeItems \cup DescItems)
    /\ DedupInit({<<>>}) /\ MainIdle

SpecBuild == InitBuild /\ [][Build]_vars

\* fetch_all_items over the responses of the month windows
InitDedup ==
    /\ ScraperIdle /\ ExtractInit({BarePage}) /\ BuildInit({BlankItem})
    /\ DedupInit([1..(NYC_MONTHS_AHEAD + 1) -> SeqsUpTo(DedupPool, MaxPerMonth)])
    /\ MainIdle

SpecDedup == InitDedup /\ [][Deduplicate]_vars

-----------------------------------------------------------------------------
(* Properties of the scraper's cache and error handling                    *)

\* the distinct other URLs asked for since `u` was last asked for
OthersSince(u) ==
    LET last == CHOOSE k \in DOMAIN history :
                    history[k] = u /\ \A j \in DOMAIN history : j > k => history[j] # u
    IN  {history[j] : j \in (last + 1)..Len(history)}

\* C1 as stated: whatever is fetched in between, no URL is ever requested
\* from the network more than once.
C1_OneRequestPerUrl == \A u \in DOMAIN requests : requests[u] <= 1

\* a get_details call for a URL asked for before, with fewer than maxsize
\* other URLs asked for since, does no I/O and returns what was returned first
C1_RepeatStep ==
    LET u == lastCall'.url
    IN  /\ Len(history') = Len(history) + 1
        /\ u \in Range(history)
        /\ Cardinality(OthersSince(u)) < maxsize
        => /\ requests' = requests
           /\ lastCall'.io = <<>>
           /\ ~lastCall'.raised
           /\ lastCall'.ret = answers[u]

\* a get_details call for a URL never asked for before issues one request
C1_FirstStep ==
    LET u == lastCall'.url
    IN  /\ Len(history') = Len(history) + 1
        /\ u \notin Range(history)
        => /\ u \notin DOMAIN requests
           /\ requests' = requests @@ (u :> 1)

\* C1 (amended): the first get_details call for an absolute URL issues one
\* network request; a later call for the same absolute URL issues none and
\* returns the result cached by the first, also the empty result of a failed
\* fetch, as long as fewer than 512 (maxsize) other distinct URLs have been
\* asked for since that URL was last asked for.
C1_CachedWithinCapacity == [][C1_RepeatStep /\ C1_FirstStep]_vars

\* a failed or empty fetch answered from the cache with 511 other URLs in between
C1_Witness ==
    /\ repeats = 2
    /\ fillers = maxsize - 1
    /\ lastCall.url # <<>>
    /\ lastCall.io = <<>>
    /\ lastCall.ret = EmptyDetails
    /\ requests[lastCall.url] = 1
    /\ Len(history) = maxsize + 1

\* C2: a detail-page fetch that ends in a transport error, a timeout or an
\* error status does not raise to the caller of get_details and returns the
\* default EventDetails, all four fields empty; the caller's batch goes on.
C2_FailedFetchReturnsEmpty ==
    lastCall.exc # "none" =>
        /\ ~lastCall.raised
        /\ lastCall.ret.description = ""
        /\ lastCall.ret.external_url = <<>>
        /\ lastCall.ret.external_label = ""
        /\ lastCall.ret.poster_image_url = <<>>

\* a timeout on the third call of a batch whose first call found a page
C2_Witness ==
    /\ repeats = 3
    /\ lastCall.exc = "Timeout"
    /\ \E u \in DOMAIN answers : answers[u].description # ""

-----------------------------------------------------------------------------
(* Properties of the throttling                                            *)

\* in the last get_details call, the request is followed by the configured
\* delay before the call returns (a delay configured as 0 is no step)
DelayAfterFetch ==
    \A k \in DOMAIN lastCall.io :
        lastCall.io[k] = "get" =>
            \/ request_delay = 0
            \/ \E j \in DOMAIN lastCall.io : j > k /\ lastCall.io[j] = "sleep"

\* C8 as stated: a delay follows every detail-page fetch that reaches the
\* network, and a delay comes right before every calendar insert call, the
\* first one and those after a failed insert included.
C8_DelayBeforeEveryInsert ==
    /\ DelayAfterFetch
    /\ \A k \in DOMAIN insertLog :
          insertLog[k] = "insert" => k > 1 /\ insertLog[k - 1] = "sleep"

\* C8 (amended): a delay of the configured length follows every detail-page
\* fetch that reaches the network, successful or failed, before get_details
\* returns (no sleep call is made when the delay is configured as 0); in
\* insert_events a fixed delay follows every successful insert call, and only
\* those: no delay precedes the first insert and none follows a failed one.
C8_DelayAfterFetchAndAfterInsert ==
    /\ DelayAfterFetch
    /\ (request_delay # 0 /\ lastCall.io # <<>>
            => lastCall.io[Len(lastCall.io)] = "sleep")
    /\ insertLog # <<>> => insertLog[1] = "insert"
    /\ \A k \in DOMAIN insertLog :
          /\ insertLog[k] = "insert" =>
                k < Len(insertLog) /\ insertLog[k + 1] \in {"sleep", "error"}
          /\ insertLog[k] = "sleep" => insertLog[k - 1] = "insert"
          /\ insertLog[k] = "error" =>
                k = Len(insertLog) \/ insertLog[k + 1] = "insert"
    /\ Cardinality({k \in DOMAIN insertLog : insertLog[k] = "sleep"}) = count
    /\ count = Len(inserted)

\* a failed insert followed at once by a successful one, next to a failed
\* fetch that was followed by the delay
C8_Witness ==
    /\ pc = "done"
    /\ insertLog = <<"insert", "error", "insert", "sleep">>
    /\ lastCall.io = <<"get", "warning", "sleep">>

-----------------------------------------------------------------------------
(* Properties of main()                                                    *)

\* the item carries a start timestamp, under structuredContent or at top level
HasStart(it) ==
    \/ it.startDate # <<>>
    \/ it.structuredContent # <<>> /\ it.structuredContent[1].startDate # <<>>

StartOf(it) ==
    IF it.structuredContent # <<>> /\ it.structuredContent[1].startDate # <<>>
    THEN it.structuredContent[1].startDate[1]
    ELSE it.startDate[1]

\* how many items the build loop has been through
Handled == IF pc = "build" THEN pos ELSE Len(items)

\* C3: build_google_event_from_item raises for every item without a usable
\* start timestamp and never returns a draft with a defaulted start; the
\* batch loop goes on, and the items that have a start timestamp are built
\* and handed to insert_events in their original order.
C3_MissingStartRejectedBatchContinues ==
    pc \in {"build", "insert", "done"} =>
        LET dated == SelectSeq(SubSeq(items, 1, Handled), HasStart)
            undated == SelectSeq(SubSeq(items, 1, Handled), LAMBDA it : ~HasStart(it))
        IN  /\ \A k \in DOMAIN items :
                  ~HasStart(items[k]) => build_google_event_from_item(items[k]).raised # ""
            /\ failed_builds = Len(undated)
            /\ Len(events) = Len(dated)
            /\ \A k \in DOMAIN events :
                  /\ events[k] = build_google_event_from_item(dated[k]).event
                  /\ events[k].start.day = ms_to_datetime(StartOf(dated[k])).day
            /\ \A k \in DOMAIN inserted : \E j \in DOMAIN events : inserted[k] = events[j]

\* an item without a start came first, the dated item after it was built and inserted
C3_Witness ==
    /\ pc = "done"
    /\ Len(items) = 2
    /\ ~HasStart(items[1])
    /\ HasStart(items[2])
    /\ failed_builds = 1
    /\ Len(events) = 1
    /\ inserted = events

AllOld == UNION {Range(pages[k]) : k \in DOMAIN pages}

Deleting == pc \in {"list", "delete"}

\* C10 as stated: when delete_existing_imported_events has returned, a delete
\* was issued for every event and no event that was in the calendar at the
\* start remains, so main never inserts next to old events.
C10_NothingRemains ==
    ~Deleting => asked = AllOld /\ calendar = {}

\* the list calls and delete calls the loop still has to make at most
RECURSIVE CallsLeft(_)
CallsLeft(k) ==
    IF k > Len(pages) THEN 0 ELSE 1 + Len(pages[k]) + CallsLeft(k + 1)

Measure ==
    CASE pc = "list"   -> CallsLeft(PageAsked)
      [] pc = "delete" -> Len(todo) + CallsLeft(PageAsked + 1)
      [] OTHER         -> 0

C10_Returned ==
    ~Deleting =>
        /\ deleted + failed = Cardinality(asked)
        /\ asked \subseteq AllOld
        /\ calendar \subseteq AllOld
        /\ AllOld \ asked \subseteq calendar
        /\ Cardinality(calendar \cap asked) = failed
        /\ ~listError => asked = AllOld /\ Cardinality(calendar) = failed

\* C10 (amended): for every calendar content split over any number of pages,
\* empty pages with a next-page token included, the loop terminates (every
\* list or delete call brings it nearer its end); a failed delete does not
\* stop the deletes of the remaining events; when every list call succeeds a
\* delete is issued for every event and the events left when the function
\* returns are exactly those whose delete call failed; a failed list call ends
\* the function with the events of the pages not yet listed left in place.
\* main inserts the new events whatever is left.
C10_DeletesAllButFailures ==
    /\ [](C10_Returned)
    /\ [][Deleting => Measure' < Measure]_vars

\* an empty page with a token, then a page where the first delete failed and
\* the second went through
C10_Witness ==
    /\ pc = "fetch"
    /\ ~listError
    /\ \E k \in DOMAIN pages : k < Len(pages) /\ pages[k] = <<>>
    /\ failed = 1
    /\ deleted = 1
    /\ calendar = {1}

-----------------------------------------------------------------------------
(* Properties of fetch_all_items                                           *)

HasId(it) == it.id # <<>> /\ it.id[1] # ""

\* two items are the same item: the same identifier, or no identifier on
\* either and the same fields
SameItem(a, b) ==
    IF HasId(a) \/ HasId(b)
    THEN HasId(a) /\ HasId(b) /\ a.id = b.id
    ELSE [a EXCEPT !.keys = <<>>] = [b EXCEPT !.keys = <<>>]

RECURSIVE FirstSeen(_, _)
FirstSeen(all, k) ==
    IF k > Len(all) THEN <<>>
    ELSE (IF \E j \in 1..(k - 1) : SameItem(all[j], all[k]) THEN <<>> ELSE <<all[k]>>)
         \o FirstSeen(all, k + 1)

\* C4: fetch_all_items returns the merged month responses in first-seen
\* order with one entry per key, the key being the identifier when present
\* and non-empty and the fields of the whole item otherwise: items sharing an
\* identifier collapse to the first seen, identifier-less items with the same
\* fields collapse to one, identifier-less items differing in a field survive.
C4_FirstSeenOnePerKey ==
    unique_items # <<>> =>
        LET all == Extend(months)
            out == unique_items[1]
        IN  /\ out = FirstSeen(all, 1)
            /\ \A a, b \in DOMAIN out : a # b => ~SameItem(out[a], out[b])
            /\ \A k \in DOMAIN all : \E a \in DOMAIN out : SameItem(out[a], all[k])

\* three merged items of which an identifier-less one is served twice, under
\* two key orders, and collapsed to its first
C4_Witness ==
    /\ unique_items # <<>>
    /\ \E m \in DOMAIN months, n \in DOMAIN months :
          /\ m < n /\ months[m] # <<>> /\ months[n] # <<>>
          /\ ~HasId(months[m][1])
          /\ months[m][1].keys # months[n][1].keys
          /\ [months[m][1] EXCEPT !.keys = <<>>] = [months[n][1] EXCEPT !.keys = <<>>]
    /\ Len(Extend(months)) = 3
    /\ Len(unique_items[1]) = 2

-----------------------------------------------------------------------------
(* Properties of build_google_event_from_item                              *)

ItemStart == ms_to_datetime(StartOf(item))

EndOf(it) ==
    IF it.structuredContent # <<>> /\ it.structuredContent[1].endDate # <<>>
    THEN it.structuredContent[1].endDate
    ELSE it.endDate

Built == built[1].event

\* the item has a start and an end, which are this many minutes apart
Lasts(minutes) ==
    /\ HasStart(item)
    /\ EndOf(item) # <<>>
    /\ EndOf(item)[1] - StartOf(item) = minutes

\* C5: an item that starts at 00:00 local time and ends at 00:00 local time
\* of the next calendar day is all-day: date-only start and end fields, the
\* start on the item's local day and the end one day after it.
C5_MidnightToMidnightAllDay ==
    /\ built # <<>>
    /\ HasStart(item)
    /\ EndOf(item) # <<>>
    /\ ItemStart.hour = 0 /\ ItemStart.minute = 0
    /\ ms_to_datetime(EndOf(item)[1]).hour = 0
    /\ ms_to_datetime(EndOf(item)[1]).minute = 0
    /\ ms_to_datetime(EndOf(item)[1]).day = ItemStart.day + 1
    => /\ built[1].raised = ""
       /\ Built.start.kind = "date"
       /\ Built.end.kind = "date"
       /\ Built.start.day = ItemStart.day
       /\ Built.end.day = Built.start.day + 1

\* a midnight-to-midnight day that lasts 23 hours, the clocks going forward in it
C5_Witness ==
    /\ built # <<>>
    /\ Lasts(23 * 60)
    /\ ItemStart.hour = 0 /\ ItemStart.minute = 0
    /\ ms_to_datetime(EndOf(item)[1]).hour = 0
    /\ ms_to_datetime(EndOf(item)[1]).day = ItemStart.day + 1
    /\ Built.end.day = Built.start.day + 1

\* C6 as stated: whatever the start time of day, an item lasting between 23
\* and 25 hours is all-day and an item lasting 22 hours never is.
C6_BandAllDay22hNever ==
    built # <<>> /\ HasStart(item) /\ EndOf(item) # <<>> =>
        /\ (\E m \in (23 * 60)..(25 * 60) : Lasts(m)) => Built.start.kind = "date"
        /\ Lasts(22 * 60) => Built.start.kind = "dateTime" /\ Built.end.kind = "dateTime"

\* C6 (amended): whatever the start time of day, an item lasting between 23
\* and 25 hours inclusive is all-day; an item lasting 22 hours is emitted
\* with dateTime fields unless it starts at local midnight and ends at 23:00
\* local time (the day the clocks go forward), which is all-day.
C6_BandAllDay22hUnlessMidnightTo23 ==
    built # <<>> /\ HasStart(item) /\ EndOf(item) # <<>> =>
        LET end_dt == ms_to_datetime(EndOf(item)[1])
            midnightTo23 == /\ ItemStart.hour = 0 /\ ItemStart.minute = 0
                            /\ end_dt.hour = 23 /\ end_dt.minute = 0
        IN  /\ (\E m \in (23 * 60)..(25 * 60) : Lasts(m)) =>
                  Built.start.kind = "date" /\ Built.end.kind = "date"
            /\ Lasts(22 * 60) /\ ~midnightTo23 =>
                  Built.start.kind = "dateTime" /\ Built.end.kind = "dateTime"
            /\ Lasts(22 * 60) /\ midnightTo23 =>
                  Built.start.kind = "date" /\ Built.end.kind = "date"

\* 24h05m from half past nine in the morning, all-day
C6_Witness ==
    /\ built # <<>>
    /\ Lasts(24 * 60 + 5)
    /\ ItemStart.hour = 9 /\ ItemStart.minute = 30
    /\ Built.start.kind = "date"

\* the sections of C7, each empty when its source data is
ClaimedSections(it) ==
    LET loc == Opt(it.location, Location("", "", "", "")[1])
        line1 == strip(loc.addressLine1)
        line2 == strip(loc.addressLine2)
        excerpt == strip(Opt(it.excerpt, ""))
    IN  << IF it.fullUrl # <<>> THEN "Full Information: " \o NYC_BASE_URL \o it.fullUrl[1]
           ELSE "",
           Join(FilterNonEmpty(<<IF line1 # "" \/ line2 # "" THEN "Location:" ELSE "",
                                 line1, line2>>), "\n"),
           IF excerpt # "" THEN "About:\n" \o excerpt ELSE "",
           IF it.tags # <<>> THEN "Tags: " \o Join(it.tags, ", ") ELSE "",
           IF AuthorName(it) # "" THEN "Listed by: " \o AuthorName(it) ELSE "" >>

\* C7 as stated: the description consists only of the sections Full
\* Information, Location, About, Tags and Listed by, in this order, separated
\* by blank lines, a section without source data being left out.
C7_FiveSectionsOnly ==
    built # <<>> /\ built[1].raised = "" =>
        Built.description = Join(FilterNonEmpty(ClaimedSections(item)), "\n\n")

\* C7 (amended): the description consists of these parts in this order,
\* separated by blank lines, a part without source data being left out: the
\* import marker "Imported from nycforfree.co" (always), "Full Information:
\* <source URL>", the excerpt (without an "About:" heading, ahead of the
\* location), "Location:" and then address line 1 and address line 2 as
\* parts of their own, "Tags: ...", "Listed by: ...", and "Raw item JSON:"
\* with the JSON of the item (always).
C7_MarkerSectionsAndRawJson ==
    built # <<>> /\ built[1].raised = "" =>
        LET loc == Opt(item.location, Location("", "", "", "")[1])
            line1 == strip(loc.addressLine1)
            line2 == strip(loc.addressLine2)
        IN  Built.description =
                Join(FilterNonEmpty(
                    << "Imported from nycforfree.co",
                       IF item.fullUrl # <<>>
                       THEN "Full Information: https://www.nycforfree.co" \o item.fullUrl[1]
                       ELSE "",
                       strip(Opt(item.excerpt, "")),
                       IF line1 # "" \/ line2 # "" THEN "Location:" ELSE "",
                       line1,
                       line2,
                       IF item.tags # <<>> THEN "Tags: " \o Join(item.tags, ", ") ELSE "",
                       IF AuthorName(item) # "" THEN "Listed by: " \o AuthorName(item)
                       ELSE "",
                       "Raw item JSON:\n" \o json_dumps(item, FALSE) >>), "\n\n")

\* an item with every kind of source data
C7_Witness ==
    /\ built # <<>>
    /\ built[1].raised = ""
    /\ item.fullUrl # <<>>
    /\ item.excerpt # <<>>
    /\ item.tags = <<"music", "outdoors">>
    /\ item.author = Author("", "Ann", "Lee")
    /\ item.location = Location("", "7 Main St", "Floor 2", "USA")

\* C11: every item classified all-day is emitted with an end date strictly
\* later than its start date, an item that ends at the local midnight it
\* starts at and an item that ends at local midnight some days after a
\* midnight start included.
C11_AllDayEndAfterStart ==
    built # <<>> /\ built[1].raised = "" /\ Built.start.kind = "date" =>
        /\ Built.end.kind = "date"
        /\ Built.end.day > Built.start.day

-----------------------------------------------------------------------------
(* Properties of _extract_external_link                                    *)

LowerHost(t) == IF t = "WWW.NYCFORFREE.CO" THEN "www.nycforfree.co" ELSE t

HasAuthority(url) == Len(url) >= 4 /\ url[2] = "/" /\ url[3] = "/"

\* the tokens of the authority: from after "//" up to the next "/"
RECURSIVE Authority(_)
Authority(rest) ==
    IF rest = <<>> \/ Head(rest) = "/" THEN <<>>
    ELSE <<LowerHost(Head(rest))>> \o Authority(Tail(rest))

\* scheme, host and port of an absolute URL, compared case-insensitively
Origin(url) ==
    [scheme |-> LowerScheme(url[1]),
     authority |-> IF HasAuthority(url) THEN Authority(SubSeq(url, 4, Len(url)))
                   ELSE <<>>]

OnSiteOrigin(url) == Origin(url) = Origin(base_url)

IsMailOrTel(url) == LowerScheme(url[1]) \in {"mailto:", "tel:"}

\* the anchors the extractor searches
Scope == IF html.post_body THEN html.buttons_body
         ELSE html.buttons_body \o html.buttons_outside

\* an anchor whose resolved link is neither on the site's origin nor mail or phone
Qualifies(anchor) ==
    /\ anchor.href # <<>>
    /\ ~IsMailOrTel(_normalize_href(anchor.href))
    /\ ~OnSiteOrigin(_normalize_href(anchor.href))

\* C9: the external link of a page is never on the source site's own origin
\* and never a mailto or tel link; it is the first button link that is
\* neither, labelled with its text or "Official Link", and there is none when
\* no button link is of that kind.
C9_FirstExternalButtonLink ==
    details # <<>> =>
        LET found == details[1]
            first == IF \E k \in DOMAIN Scope : Qualifies(Scope[k])
                     THEN CHOOSE k \in DOMAIN Scope :
                            /\ Qualifies(Scope[k])
                            /\ \A j \in 1..(k - 1) : ~Qualifies(Scope[j])
                     ELSE 0
        IN  /\ found.external_url # <<>> =>
                  ~OnSiteOrigin(found.external_url) /\ ~IsMailOrTel(found.external_url)
            /\ first = 0 => found.external_url = <<>> /\ found.external_label = ""
            /\ first # 0 =>
                  /\ found.external_url = _normalize_href(Scope[first].href)
                  /\ found.external_label =
                        IF Scope[first].text # "" THEN Scope[first].text
                        ELSE "Official Link"

====
